---- MODULE Spec2Model ----
(***************************************************************************)
(* thriftpy/server.py: TSimpleServer, TThreadedServer, TThreadPoolServer.  *)
(*                                                                         *)
(* One server object is modelled; `variant` says which class it is.  The   *)
(* threads of control are the thread that calls serve(), the threads that  *)
(* serve() starts, and the caller(s) of close() and setNumThreads().       *)
(* Every invocation of the connection pump (the inline block of            *)
(* TSimpleServer.serve, TThreadedServer.handle,                            *)
(* TThreadPoolServer.serveClient) is one record of `pumps`.                *)
(* A step of the model is one read or write of shared state (self.closed,  *)
(* self.clients, self.threads) or the return of one blocking call          *)
(* (accept(), get(), process()), together with the statements of the same  *)
(* thread that follow it and touch only that thread's own objects: the     *)
(* factory calls at the head of the pump, the except clauses and the two   *)
(* close() calls at its end.                                               *)
(***************************************************************************)
EXTENDS Naturals, Sequences, FiniteSets

\* ---- bounds of the model ------------------------------------------------
MaxConns == 2        \* connections the listening transport ever delivers
MaxReqs == 2         \* requests the clients send, all connections together
MaxThreads == 1      \* largest pool size serve() is explored with
MaxFaults == 1       \* exceptions raised by factories, close() and Thread.start()

\* ---- program constants --------------------------------------------------
DefaultThreads == 10 \* TThreadPoolServer.__init__: self.threads = 10

Variants == {"simple", "threaded", "pool"}
Conns == 1..MaxConns

VARIABLES
  variant,     \* the class of the server object
  closed,      \* self.closed
  closeCalls,  \* close() was called "none", "once" or "many" (two or more) times
  threads,     \* self.threads (TThreadPoolServer)
  spc,         \* position of the thread running serve()
  nthreads,    \* the bound of range(self.threads), evaluated on entry to serve()
  spawned,     \* the loop variable i of the start-up loop of TThreadPoolServer.serve
  started,     \* worker threads of the pool whose start() succeeded
  nCheck,      \* pool workers at the top of serveThread's loop (about to read self.closed)
  nGet,        \* pool workers blocked in self.clients.get()
  nExit,       \* pool workers that left serveThread
  naccept,     \* connections accept() has returned so far (they are 1..naccept)
  clients,     \* self.clients, the queue of the pool
  pumps,       \* the pump invocations, in the order they began
  nread,       \* per connection: requests read off it so far (process() calls begun)
  resp,        \* per connection: the requests answered, in the order of the answers
  iclose,      \* per connection: calls of itrans.close()
  oclose,      \* per connection: calls of otrans.close()
  faults       \* exceptions raised so far by factories, close() and Thread.start()

vars == <<variant, closed, closeCalls, threads, spc, nthreads, spawned, started,
          nCheck, nGet, nExit, naccept, clients, pumps, nread, resp, iclose, oclose,
          faults>>

poolVars == <<nthreads, spawned, started, nCheck, nGet, nExit, clients>>
connVars == <<nread, resp, iclose, oclose>>

\* ---- helpers that carry the decisions of the code ------------------------

\* (a close() that flips the flag instead of setting it)
CloseFlagToggle(cl) == ~cl

\* close(): the value assigned to self.closed
CloseFlag(cl) == TRUE

\* (an accept loop that never tests the flag)
AcceptLoopAlways(cl) == TRUE

\* the condition of the accept loop: `while not self.closed` /
\* `if self.closed: break`
AcceptLoopGoes(cl) == ~cl

\* (every pump loop tests the flag, that of handle() too)
PumpAlwaysReadsFlag(v) == TRUE

\* does the pump loop of this class read self.closed before process()?
\* `while not self.closed` (simple), `if self.closed: break` (pool),
\* `while True` (threaded)
PumpReadsFlag(v) == v # "threaded"

\* (a start-up loop that runs once too often)
SpawnOneMore(n) == n + 1

\* range(self.threads): the number of iterations of the start-up loop
SpawnCount(n) == n

\* (a get() that leaves the item on the queue)
QueuePeek(q) == [item |-> Head(q), rest |-> q]

\* Queue.get(): the item returned and the queue left behind
QueueGet(q) == [item |-> Head(q), rest |-> Tail(q)]

\* (two handler threads started for one client)
HandlerClientsTwice(c) == <<c, c>>

\* the handler threads TThreadedServer.serve starts for an accepted client
HandlerClients(c) == <<c>>

\* a pump invocation after its four factory calls: ok = all succeeded and the
\* pump is at the top of its loop, ~ok = one raised and the exception escaped
\* pc: "loop" top of the pump loop, "process" inside process(), "done" the pump
\*     returned, "raised" an exception escaped it
\* how: the way the loop was left ("stop": flag read true, "disconnect":
\*     TTransportException, "failure": another Exception, logged)
\* err: the call whose exception escaped ("wrap": a factory, "iclose", "oclose")
\* req: the request the process() call in progress is answering
NewPump(c, ok) == [client |-> c,
                   pc |-> IF ok THEN "loop" ELSE "raised",
                   how |-> "none",
                   err |-> IF ok THEN "none" ELSE "wrap",
                   req |-> 0]

PumpsOf(cs, ok) == [k \in 1..Len(cs) |-> NewPump(cs[k], ok)]

Active(p) == p.pc \in {"loop", "process"}
Finished(p) == p.pc \in {"done", "raised"}

\* the pump invocations on connection c
PumpsOn(c) == {i \in DOMAIN pumps : pumps[i].client = c}

\* (a handler that works on the client accepted last, not on its own)
ClientAcceptedLast(i) == naccept

\* the client a pump invocation works on: the argument `client` it was
\* called with
ClientOf(i) == pumps[i].client

\* a call that may raise: ok = it returned; it raises only while the run has
\* faults left
MayRaise(ok) ==
  /\ ok \/ faults < MaxFaults
  /\ faults' = IF ok THEN faults ELSE faults + 1

NumActive == Cardinality({i \in DOMAIN pumps : Active(pumps[i])})

RECURSIVE SumLen(_, _)
SumLen(f, n) == IF n = 0 THEN 0 ELSE Len(f[n]) + SumLen(f, n - 1)

\* the requests answered so far, all connections together
NumAnswered == SumLen(resp, MaxConns)

\* ---- initial state: the object after __init__ ----------------------------
Init ==
  /\ variant \in Variants
  /\ closed = FALSE
  /\ closeCalls = "none"
  /\ threads = IF variant = "pool" THEN DefaultThreads ELSE 0
  /\ spc = "init"
  /\ nthreads = 0
  /\ spawned = 0
  /\ started = 0
  /\ nCheck = 0
  /\ nGet = 0
  /\ nExit = 0
  /\ naccept = 0
  /\ clients = <<>>
  /\ pumps = <<>>
  /\ nread = [c \in Conns |-> 0]
  /\ resp = [c \in Conns |-> <<>>]
  /\ iclose = [c \in Conns |-> 0]
  /\ oclose = [c \in Conns |-> 0]
  /\ faults = 0

\* ---- close() and setNumThreads() -----------------------------------------
\* (a close() that also throws away the connections still waiting)
ClientsDropped(q) == <<>>

\* what close() does to the queue of the pool: its body is the one assignment
\* to self.closed, the queue is not touched
ClientsAfterClose(q) == q

Close ==
  /\ closed' = CloseFlag(closed)
  /\ closeCalls' = IF closeCalls = "none" THEN "once" ELSE "many"
  /\ clients' = ClientsAfterClose(clients)
  /\ UNCHANGED <<variant, threads, spc, naccept, pumps>>
  /\ UNCHANGED <<nthreads, spawned, started, nCheck, nGet, nExit>>
  /\ UNCHANGED <<connVars, faults>>

SetNumThreads ==
  /\ variant = "pool"
  /\ \E num \in 1..MaxThreads : threads' = num
  /\ UNCHANGED <<variant, closed, closeCalls, spc, naccept, pumps>>
  /\ UNCHANGED poolVars
  /\ UNCHANGED <<connVars, faults>>

\* ---- serve(): entry and the start-up loop of the pool ---------------------
\* TSimpleServer.serve / TThreadedServer.serve: self.trans.listen()
ServeStart ==
  /\ spc = "init"
  /\ variant # "pool"
  /\ spc' = "loop"
  /\ UNCHANGED <<variant, closed, closeCalls, threads, naccept, pumps>>
  /\ UNCHANGED poolVars
  /\ UNCHANGED <<connVars, faults>>

\* TThreadPoolServer.serve: range(self.threads) is evaluated once.  Pools of
\* more than MaxThreads workers (the default of 10 among them) are not explored:
\* serve() is entered after setNumThreads() has made the pool small enough
PoolServeStart ==
  /\ spc = "init"
  /\ variant = "pool"
  /\ threads <= MaxThreads
  /\ spc' = "spawn"
  /\ nthreads' = threads
  /\ spawned' = 0
  /\ UNCHANGED <<variant, closed, closeCalls, threads, naccept, pumps>>
  /\ UNCHANGED <<started, nCheck, nGet, nExit, clients>>
  /\ UNCHANGED <<connVars, faults>>

\* one iteration of the start-up loop: t.start() succeeds, or raises and is logged
SpawnThread ==
  /\ spc = "spawn"
  /\ spawned < SpawnCount(nthreads)
  /\ spawned' = spawned + 1
  /\ \E ok \in BOOLEAN :
       /\ MayRaise(ok)
       /\ IF ok THEN /\ started' = started + 1
                     /\ nCheck' = nCheck + 1
                ELSE UNCHANGED <<started, nCheck>>
  /\ UNCHANGED <<variant, closed, closeCalls, threads, spc, naccept, pumps>>
  /\ UNCHANGED <<nthreads, nGet, nExit, clients>>
  /\ UNCHANGED connVars

\* the start-up loop is over: self.trans.listen()
SpawnDone ==
  /\ spc = "spawn"
  /\ spawned >= SpawnCount(nthreads)
  /\ spc' = "loop"
  /\ UNCHANGED <<variant, closed, closeCalls, threads, naccept, pumps>>
  /\ UNCHANGED poolVars
  /\ UNCHANGED <<connVars, faults>>

\* ---- the accept loop ------------------------------------------------------
\* the loop test: reads self.closed; serve() returns or calls accept()
LoopCheck ==
  /\ spc = "loop"
  /\ spc' = IF AcceptLoopGoes(closed) THEN "accept" ELSE "returned"
  /\ UNCHANGED <<variant, closed, closeCalls, threads, naccept, pumps>>
  /\ UNCHANGED poolVars
  /\ UNCHANGED <<connVars, faults>>

\* a falsy result of accept(): no connection
NoClient == 0

\* (an accept loop without the `if not client: continue` test)
PutAnyResult(q, client) == Append(q, client)

\* what the accept loop of the pool does to the queue with the result of
\* accept(): `if not client: continue`, else self.clients.put(client)
PutClient(q, client) == IF client = NoClient THEN q ELSE Append(q, client)

\* accept() returns a connection
AcceptClient ==
  /\ spc = "accept"
  /\ naccept < MaxConns
  /\ naccept' = naccept + 1
  /\ LET c == naccept + 1 IN
       CASE variant = "simple" ->
              \* the pump runs inline in the thread of serve(); an exception of
              \* a factory is not caught
              /\ \E wrapped \in BOOLEAN :
                   /\ MayRaise(wrapped)
                   /\ pumps' = Append(pumps, NewPump(c, wrapped))
                   /\ spc' = IF wrapped THEN "serving" ELSE "raised"
              /\ UNCHANGED clients
         [] variant = "threaded" ->
              \* t.start() succeeds and handle(client) is entered, or it
              \* raises and is logged
              /\ \E ok, wrapped \in BOOLEAN :
                   /\ ok \/ wrapped
                   /\ MayRaise(ok /\ wrapped)
                   /\ pumps' = IF ok THEN pumps \o PumpsOf(HandlerClients(c), wrapped)
                                     ELSE pumps
              /\ spc' = "loop"
              /\ UNCHANGED clients
         [] variant = "pool" ->
              /\ clients' = PutClient(clients, c)
              /\ spc' = "loop"
              /\ UNCHANGED <<pumps, faults>>
  /\ UNCHANGED <<variant, closed, closeCalls, threads>>
  /\ UNCHANGED <<nthreads, spawned, started, nCheck, nGet, nExit>>
  /\ UNCHANGED connVars

\* accept() returns a falsy value: TThreadPoolServer.serve skips it
AcceptNull ==
  /\ spc = "accept"
  /\ variant = "pool"
  /\ clients' = PutClient(clients, NoClient)
  /\ spc' = "loop"
  /\ UNCHANGED <<variant, closed, closeCalls, threads, naccept, pumps>>
  /\ UNCHANGED <<nthreads, spawned, started, nCheck, nGet, nExit>>
  /\ UNCHANGED <<connVars, faults>>

\* accept() raises an Exception: caught and logged by the threaded and the
\* pool server, not caught by TSimpleServer.serve
AcceptError ==
  /\ spc = "accept"
  /\ spc' = IF variant = "simple" THEN "raised" ELSE "loop"
  /\ UNCHANGED <<variant, closed, closeCalls, threads, naccept, pumps>>
  /\ UNCHANGED poolVars
  /\ UNCHANGED <<connVars, faults>>

\* KeyboardInterrupt in accept(): re-raised (threaded), not an Exception (pool),
\* not caught (simple)
AcceptInterrupt ==
  /\ spc = "accept"
  /\ spc' = "interrupted"
  /\ UNCHANGED <<variant, closed, closeCalls, threads, naccept, pumps>>
  /\ UNCHANGED poolVars
  /\ UNCHANGED <<connVars, faults>>

\* ---- the workers of the pool ----------------------------------------------
\* serveThread: `if self.closed: break`
WorkerCheck ==
  /\ nCheck > 0
  /\ nCheck' = nCheck - 1
  /\ IF closed THEN /\ nExit' = nExit + 1
                    /\ UNCHANGED nGet
               ELSE /\ nGet' = nGet + 1
                    /\ UNCHANGED nExit
  /\ UNCHANGED <<variant, closed, closeCalls, threads, spc, naccept, pumps>>
  /\ UNCHANGED <<nthreads, spawned, started, clients>>
  /\ UNCHANGED <<connVars, faults>>

\* (a worker that is ended by an exception escaping serveClient)
WorkerDiesOnError(ok) == ok

\* does the worker go back to the top of its loop after serveClient?  ok = it
\* returned, ~ok = it raised: `except Exception` logs and the loop goes on
WorkerGoesOn(ok) == TRUE

\* (a get() that gives up waiting and raises queue.Empty)
GetGivesUp(q) == TRUE

\* when self.clients.get() comes back: it is called without a timeout, so
\* only once the queue holds an item
GetReturns(q) == q # <<>>

\* serveThread: client = self.clients.get() returns and serveClient(client) is
\* entered; an exception of a factory, or of get() itself, is caught and
\* logged by serveThread, which goes back to the top of its loop
WorkerGet ==
  /\ nGet > 0
  /\ GetReturns(clients)
  /\ nGet' = nGet - 1
  /\ IF clients # <<>>
       THEN /\ clients' = QueueGet(clients).rest
            /\ \E wrapped \in BOOLEAN :
                 /\ MayRaise(wrapped)
                 /\ pumps' = Append(pumps, NewPump(QueueGet(clients).item, wrapped))
                 /\ nCheck' = IF ~wrapped /\ WorkerGoesOn(wrapped) THEN nCheck + 1
                                                                 ELSE nCheck
       ELSE /\ nCheck' = nCheck + 1
            /\ UNCHANGED <<clients, pumps, faults>>
  /\ UNCHANGED <<variant, closed, closeCalls, threads, spc, naccept>>
  /\ UNCHANGED <<nthreads, spawned, started, nExit>>
  /\ UNCHANGED connVars

\* ---- the connection pump --------------------------------------------------
\* what the end of a pump invocation does to the thread that ran it:
\* ok = it returned, ~ok = an exception escaped it
PumpEnd(ok) ==
  /\ spc' = IF variant = "simple" THEN (IF ok THEN "loop" ELSE "raised") ELSE spc
  /\ nCheck' = IF variant = "pool" /\ WorkerGoesOn(ok) THEN nCheck + 1 ELSE nCheck

\* is otrans.close() reached?  It follows itrans.close() outside any try block,
\* so it is reached when itrans.close() returned
OCloseReached(out) == out # "iclose"

\* the statements after the try block, which touch only the transports of this
\* connection: itrans.close(); otrans.close().  Pump i left its loop the way
\* h; out = "none": both calls returned, "iclose"/"oclose": itrans.close() /
\* otrans.close() raised and the exception escaped the pump
CleanUp(i, h) ==
  LET c == ClientOf(i) IN
  \E out \in {"none", "iclose", "oclose"} :
    /\ MayRaise(out = "none")
    /\ iclose' = [iclose EXCEPT ![c] = iclose[c] + 1]
    /\ oclose' = [oclose EXCEPT ![c] = IF OCloseReached(out) THEN oclose[c] + 1
                                                             ELSE oclose[c]]
    /\ pumps' = [pumps EXCEPT ![i].pc = IF out = "none" THEN "done" ELSE "raised",
                              ![i].how = h,
                              ![i].err = out,
                              ![i].req = 0]
    /\ PumpEnd(out = "none")

\* process() is called: it reads the next request of the connection
CallProcess(i) ==
  LET c == ClientOf(i) IN
  /\ pumps' = [pumps EXCEPT ![i].pc = "process", ![i].req = nread[c] + 1]
  /\ nread' = [nread EXCEPT ![c] = nread[c] + 1]

\* the top of the pump loop of the simple and the pool server: the flag is
\* read; the loop is left when it is true, else process() is called
PumpLoop(i) ==
  /\ pumps[i].pc = "loop"
  /\ IF PumpReadsFlag(variant) /\ closed
       THEN /\ CleanUp(i, "stop")
            /\ UNCHANGED <<nread, resp>>
       ELSE /\ CallProcess(i)
            /\ UNCHANGED <<spc, nCheck, resp, iclose, oclose, faults>>
  /\ UNCHANGED <<variant, closed, closeCalls, threads, naccept>>
  /\ UNCHANGED <<nthreads, spawned, started, nGet, nExit, clients>>

\* process() returns after answering the request it read; the pump is back at
\* the top of its loop
ProcessOk(i) ==
  /\ pumps[i].pc = "process"
  /\ NumAnswered < MaxReqs
  /\ LET c == ClientOf(i) IN
       resp' = [resp EXCEPT ![c] = Append(resp[c], pumps[i].req)]
  /\ pumps' = [pumps EXCEPT ![i].pc = "loop", ![i].req = 0]
  /\ UNCHANGED <<variant, closed, closeCalls, threads, spc, naccept>>
  /\ UNCHANGED poolVars
  /\ UNCHANGED <<nread, iclose, oclose, faults>>

\* process() raises TTransportException ("disconnect") or another
\* Exception ("failure", logged); either way the loop is left
ProcessRaise(i) ==
  /\ pumps[i].pc = "process"
  /\ \E h \in {"disconnect", "failure"} : CleanUp(i, h)
  /\ UNCHANGED <<variant, closed, closeCalls, threads, naccept>>
  /\ UNCHANGED <<nthreads, spawned, started, nGet, nExit, clients>>
  /\ UNCHANGED <<nread, resp>>

Next ==
  \/ Close
  \/ SetNumThreads
  \/ ServeStart
  \/ PoolServeStart
  \/ SpawnThread
  \/ SpawnDone
  \/ LoopCheck
  \/ AcceptClient
  \/ AcceptNull
  \/ AcceptError
  \/ AcceptInterrupt
  \/ WorkerCheck
  \/ WorkerGet
  \/ \E i \in DOMAIN pumps : PumpLoop(i)
  \/ \E i \in DOMAIN pumps : ProcessOk(i)
  \/ \E i \in DOMAIN pumps : ProcessRaise(i)

Spec == Init /\ [][Next]_vars

\* ---- the serial server alone, with its scheduling ---------------------------
InitSimple == Init /\ variant = "simple"

\* the operations of a TSimpleServer: serve() and close(), all on the
\* connection serve() is pumping
NextSimple ==
  \/ Close
  \/ ServeStart
  \/ LoopCheck
  \/ AcceptClient
  \/ AcceptError
  \/ AcceptInterrupt
  \/ \E i \in DOMAIN pumps : PumpLoop(i)
  \/ \E i \in DOMAIN pumps : ProcessOk(i)
  \/ \E i \in DOMAIN pumps : ProcessRaise(i)

\* the thread inside serve() keeps running: it takes its next step at the
\* loop test and in the pump; a process() call comes back (with a result or
\* an exception) and so does an accept() call in progress.  Nothing makes
\* serve() or close() be called.
FairSimple ==
  /\ WF_vars(LoopCheck)
  /\ WF_vars(AcceptClient \/ AcceptError \/ AcceptInterrupt)
  /\ WF_vars(\E i \in DOMAIN pumps : PumpLoop(i) \/ ProcessOk(i) \/ ProcessRaise(i))

SpecSimple == InitSimple /\ [][NextSimple]_vars /\ FairSimple

TypeOK ==
  /\ variant \in Variants
  /\ closed \in BOOLEAN
  /\ closeCalls \in {"none", "once", "many"}
  /\ threads \in 0..MaxThreads \cup {DefaultThreads}
  /\ spc \in {"init", "spawn", "loop", "accept", "serving", "returned", "raised", "interrupted"}
  /\ nthreads \in 0..MaxThreads
  /\ spawned \in 0..MaxThreads
  /\ started \in 0..MaxThreads
  /\ nCheck + nGet + nExit <= started
  /\ naccept \in 0..MaxConns
  /\ faults \in 0..MaxFaults
  /\ \A k \in DOMAIN clients : clients[k] \in Conns
  /\ \A i \in DOMAIN pumps :
       /\ pumps[i].client \in Conns
       /\ pumps[i].pc \in {"loop", "process", "done", "raised"}
       /\ pumps[i].how \in {"none", "stop", "disconnect", "failure"}
       /\ pumps[i].err \in {"none", "wrap", "iclose", "oclose"}
       /\ pumps[i].req \in 0..(MaxReqs + 1)

\* ==== the claims ==========================================================

\* C1: in all three servers, every connection whose pump has started and has
\* left its loop (stop flag, TTransportException or another failure of
\* process()) has had its input transport and its output transport closed,
\* each exactly once.
C1_BothClosedOnEveryExit ==
  /\ \A c \in Conns : iclose[c] <= 1 /\ oclose[c] <= 1
  /\ \A i \in DOMAIN pumps :
       pumps[i].how # "none" =>
         iclose[pumps[i].client] = 1 /\ oclose[pumps[i].client] = 1

\* C2: in all three servers, when itrans.close() raises, the output transport
\* of that connection is still closed and the failure does not leave the pump
\* (the pump returns, serve() has not raised).
C2_CloseFailureContained ==
  \A i \in DOMAIN pumps :
    pumps[i].err = "iclose" =>
      /\ oclose[pumps[i].client] = 1
      /\ pumps[i].pc = "done"
      /\ spc # "raised"

\* C3: in each server, a connection on which process() raised a failure other
\* than TTransportException has its transports closed and its pump returns
\* to the thread that ran it, which therefore goes on (the accept loop of the
\* simple server, the worker of the pool).
C3_FailureClosesAndServerGoesOn ==
  \A i \in DOMAIN pumps :
    pumps[i].how = "failure" =>
      /\ iclose[pumps[i].client] = 1
      /\ oclose[pumps[i].client] = 1
      /\ pumps[i].pc = "done"

\* C4: in the pool server entered with self.threads = N, at most N connections
\* are inside serveClient at any time, and while N are, no connection leaves
\* the clients queue: the next pump starts only after one has ended.
C4_PoolBoundsConcurrency ==
  /\ [](variant = "pool" => NumActive <= nthreads)
  /\ [][(variant = "pool" /\ NumActive >= nthreads)
          => (Len(pumps') = Len(pumps) /\ Len(clients') >= Len(clients))]_vars

C4_Witness ==
  /\ variant = "pool"
  /\ nthreads >= 1
  /\ NumActive = nthreads
  /\ clients # <<>>

C6_RequestsServedInOrder ==
  /\ [](\A c \in Conns :
          /\ \A k \in DOMAIN resp[c] : resp[c][k] = k
          /\ Cardinality({i \in PumpsOn(c) : pumps[i].pc = "process"}) <= 1
          /\ nread[c] <= Len(resp[c]) + 1)
  /\ [][\A c \in Conns :
          nread'[c] # nread[c] => \A i \in PumpsOn(c) : pumps[i].pc # "process"]_vars

C6_Witness ==
  \E c \in Conns : resp[c] = <<1, 2>>

\* C7: the stop flag is false after construction and, once true, stays true:
\* no step of serve(), of a worker, of close() or of setNumThreads() resets it.
C7_StopFlagMonotonic ==
  /\ ~closed
  /\ [][closed => closed']_vars

C7_Witness ==
  /\ closed
  /\ closeCalls = "many"
  /\ spc = "returned"
  /\ \E i \in DOMAIN pumps : pumps[i].how = "stop"

\* C8: a close() call after the first changes nothing (the state after two or
\* more calls is the state after one), close() has no failing outcome, and no
\* transport is closed more than once whatever the number of close() calls.
C8_CloseIdempotent ==
  /\ [][closeCalls # "none" => closed' = closed]_vars
  /\ [][(closeCalls # "none" /\ closeCalls' # closeCalls)
          => UNCHANGED <<variant, closed, threads, spc, poolVars, naccept, pumps,
                         connVars, faults>>]_vars
  /\ [](closeCalls # "none" => ENABLED Close)
  /\ [](\A c \in Conns : iclose[c] <= 1 /\ oclose[c] <= 1)

C8_Witness ==
  /\ closeCalls = "many"
  /\ \E c \in Conns : iclose[c] = 1 /\ oclose[c] = 1

\* C9: in the simple server, once the pump loop has observed the flag (left by
\* "stop"), serve() begins no further accept(); while a process() call is in
\* progress the transports of its connection are not closed, and the step that
\* sets the flag leaves the call in progress and the transports alone.
C9_SimpleStopsAccepting ==
  /\ [](variant = "simple" =>
          \A i \in DOMAIN pumps :
            pumps[i].pc = "process" =>
              iclose[pumps[i].client] = 0 /\ oclose[pumps[i].client] = 0)
  /\ [][(variant = "simple" /\ \E i \in DOMAIN pumps : pumps[i].how = "stop")
          => (spc' # "accept" /\ naccept' = naccept)]_vars
  /\ [][(variant = "simple" /\ closed' # closed)
          => UNCHANGED <<pumps, iclose, oclose, spc>>]_vars

C9_Witness ==
  /\ variant = "simple"
  /\ spc = "returned"
  /\ \E i \in DOMAIN pumps :
       /\ pumps[i].how = "stop"
       /\ pumps[i].pc = "done"
       /\ Len(resp[pumps[i].client]) >= 1

\* C10: in the threaded server a handler never leaves its loop because of the
\* flag: from the top of the loop it calls process() whatever the flag is, it
\* ends only when process() raises, and the transports are closed only then.
C10_ThreadedWorkersIgnoreFlag ==
  /\ [](variant = "threaded" =>
          \A i \in DOMAIN pumps :
            /\ pumps[i].how # "stop"
            /\ Active(pumps[i]) =>
                 iclose[pumps[i].client] = 0 /\ oclose[pumps[i].client] = 0)
  /\ [][variant = "threaded" =>
          \A i \in DOMAIN pumps :
            /\ (pumps[i].pc = "loop" /\ pumps'[i] # pumps[i])
                 => pumps'[i].pc = "process"
            /\ (Active(pumps[i]) /\ Finished(pumps'[i]))
                 => (pumps[i].pc = "process"
                     /\ pumps'[i].how \in {"disconnect", "failure"})]_vars

C10_Witness ==
  /\ variant = "threaded"
  /\ closed
  /\ spc = "returned"
  /\ \E i \in DOMAIN pumps :
       /\ pumps[i].pc = "process"
       /\ pumps[i].req = 2

\* C11 (as stated): in the threaded server, K accepted connections give
\* exactly K handler threads.
C11_ExactlyKWorkers ==
  variant = "threaded" => Len(pumps) = naccept

\* C11 (amended): in the threaded server no more handler threads are started
\* than connections are accepted, and every accepted connection without one
\* is accounted for by a raised exception; a step that closes a transport of a
\* connection is the end of the handler of that connection, and a step of one
\* handler (its process() raising included) leaves every other handler as it
\* was.
C11_IndependentWorkers ==
  /\ [](variant = "threaded" =>
          /\ Len(pumps) <= naccept
          /\ naccept - Len(pumps) <= faults
          /\ \A i, j \in DOMAIN pumps : pumps[i].client = pumps[j].client => i = j)
  /\ [][variant = "threaded" =>
          /\ \A c \in Conns :
               (iclose'[c] # iclose[c] \/ oclose'[c] # oclose[c]) =>
                 \E i \in DOMAIN pumps :
                   /\ pumps[i].client = c
                   /\ Active(pumps[i])
                   /\ Finished(pumps'[i])
          /\ \A i, j \in DOMAIN pumps :
               (pumps'[i] # pumps[i] /\ pumps'[j] # pumps[j]) => i = j]_vars

C11_Witness ==
  /\ variant = "threaded"
  /\ Len(pumps) = 2
  /\ pumps[1].how = "failure"
  /\ pumps[2].pc = "done"
  /\ pumps[2].how = "disconnect"
  /\ resp[pumps[2].client] # <<>>

\* C12: in every variant a failure while accepting a connection or while
\* starting a worker leaves serve() running: no accept() call that delivers
\* no connection and no step of the start-up loop ends serve() by a return or
\* by an exception other than KeyboardInterrupt.
C12_AcceptFailureNeverEndsServe ==
  [][((spc = "accept" /\ naccept' = naccept) \/ spc = "spawn") =>
       (spc' # "raised" /\ spc' # "returned")]_vars

\* C13: while close() is not called and no call raises but process(), the
\* three variants show the same run of a connection whose processor answers
\* one request and then signals the disconnect: the connection is pumped by
\* one handler (at once in the simple and the threaded server), process() is
\* called twice, the input and the output transport are each closed once
\* after it, the pump returns, and the end of the pump neither ends serve()
\* nor a worker of the pool.
C13_SameObservableRun ==
  /\ []((closeCalls = "none" /\ faults = 0) =>
          /\ \A c \in 1..naccept :
               /\ Cardinality(PumpsOn(c)) <= 1
               /\ variant # "pool" => Cardinality(PumpsOn(c)) = 1
          /\ \A i \in DOMAIN pumps :
               LET c == pumps[i].client IN
               /\ oclose[c] <= iclose[c]
               /\ Active(pumps[i]) => iclose[c] = 0
               /\ (/\ Finished(pumps[i])
                   /\ pumps[i].how = "disconnect"
                   /\ resp[c] = <<1>>) =>
                     /\ pumps[i].pc = "done"
                     /\ nread[c] = 2
                     /\ iclose[c] = 1
                     /\ oclose[c] = 1)
  /\ [][(closeCalls' = "none" /\ faults' = 0) =>
          \A i \in DOMAIN pumps :
            (Active(pumps[i]) /\ Finished(pumps'[i])) =>
              /\ spc' = IF variant = "simple" THEN "loop" ELSE spc
              /\ nExit' = nExit
              /\ nCheck' = IF variant = "pool" THEN nCheck + 1 ELSE nCheck]_vars

C13_Witness ==
  /\ variant = "pool"
  /\ closeCalls = "none"
  /\ faults = 0
  /\ naccept = 1
  /\ \E i \in DOMAIN pumps :
       /\ pumps[i].pc = "done"
       /\ pumps[i].how = "disconnect"
       /\ resp[pumps[i].client] = <<1>>
       /\ oclose[pumps[i].client] = 1

\* the pool server after close() and after serve() returned, with a worker
\* waiting in clients.get() on the empty queue
BlockedAfterClose ==
  /\ variant = "pool"
  /\ closed
  /\ spc = "returned"
  /\ clients = <<>>
  /\ nGet > 0

\* C14: close() does not wake a pool worker that waits in clients.get(): no
\* step that leaves the queue empty, a close() call included, takes a worker
\* out of get(); and once close() was called, serve() has returned and the
\* queue is empty, a waiting worker waits in every later state: it never
\* terminates.
C14_BlockedWorkerNeverWoken ==
  /\ [][(variant = "pool" /\ clients = <<>> /\ clients' = <<>>) =>
          (nGet' >= nGet /\ (closed' # closed => nGet' = nGet))]_vars
  /\ [][BlockedAfterClose => (BlockedAfterClose' /\ nGet' = nGet)]_vars

C14_Witness ==
  /\ BlockedAfterClose
  /\ nCheck = 0
  /\ NumActive = 0
  /\ nExit = 0

\* C15: in the serial server close() interrupts neither accept() nor the
\* pump: the close() step changes no position; after it serve() begins no
\* further accept() call, so the only connection accepted after close() is
\* the one of an accept() call already in progress; and, the accept() call in
\* progress and the current connection coming to their end, a running
\* serve() eventually returns, unless an exception leaves it first.
C15_SimpleServeEndsAfterClose ==
  /\ [][closed' # closed => (spc' = spc /\ pumps' = pumps /\ naccept' = naccept)]_vars
  /\ [][closed => ~(spc # "accept" /\ spc' = "accept")]_vars
  /\ (closed /\ spc # "init") ~> (spc = "returned" \/ spc = "raised" \/ spc = "interrupted")

C15_Witness ==
  /\ variant = "simple"
  /\ closed
  /\ spc = "returned"
  /\ naccept = 2
  /\ \A i \in DOMAIN pumps : pumps[i].pc = "done"
  /\ pumps[2].how = "stop"

\* C16: the queue of the pool holds accepted connections only, never the
\* falsy result of accept(); every accepted connection is put on it once: it
\* is either still on the queue, once, or was taken by one worker; an
\* accept() call that delivers no connection puts nothing on the queue and
\* leads to the next stop check.
C16_OnlyRealClientsQueued ==
  /\ [](variant = "pool" =>
          /\ \A k \in DOMAIN clients : clients[k] # NoClient /\ clients[k] \in 1..naccept
          /\ \A c \in 1..naccept :
               Cardinality({k \in DOMAIN clients : clients[k] = c})
                 + Cardinality(PumpsOn(c)) = 1)
  /\ [][(variant = "pool" /\ spc = "accept" /\ naccept' = naccept) =>
          /\ Len(clients') <= Len(clients)
          /\ (spc' = "accept" \/ spc' = "loop" \/ spc' = "interrupted")]_vars

C16_Witness ==
  /\ variant = "pool"
  /\ naccept = 2
  /\ Len(clients) = 1
  /\ Len(pumps) = 1
  /\ spc = "loop"

C18_CloseChangesOnlyTheFlag ==
  [][(closed' # closed \/ closeCalls' # closeCalls) =>
       /\ UNCHANGED <<variant, threads, spc, naccept, pumps>>
       /\ UNCHANGED <<nthreads, spawned, started, nCheck, nGet, nExit, clients>>
       /\ UNCHANGED <<nread, resp, iclose, oclose, faults>>]_vars

C18_Witness ==
  /\ variant = "pool"
  /\ closeCalls = "once"
  /\ closed
  /\ spc = "accept"
  /\ clients # <<>>
  /\ NumActive > 0

\* C19: in the simple and the pool server a pump calls process() only in the
\* step in which it read the stop flag as false; so a pump that finds the
\* flag true at its first test has called process() not once, and both
\* transports of its connection are closed all the same.
C19_StopCheckedBeforeProcess ==
  /\ [][variant # "threaded" =>
          \A i \in DOMAIN pumps :
            (pumps[i].pc = "loop" /\ pumps'[i].pc = "process") => ~closed]_vars
  /\ [](variant # "threaded" =>
          \A i \in DOMAIN pumps :
            (pumps[i].how = "stop" /\ nread[pumps[i].client] = 0) =>
              /\ iclose[pumps[i].client] = 1
              /\ oclose[pumps[i].client] = 1)

\* C20: a worker of the pool leaves its loop only at the stop check at the
\* top of an iteration, having read the flag as true; an exception escaping
\* serveClient (of a factory, of a close call) takes it back to the stop
\* check.  So every started worker is at its stop check, in get(), in a pump
\* or has left, and while close() was not called none has left.
C20_WorkersLeaveOnlyOnStop ==
  /\ [](variant = "pool" =>
          /\ nCheck + nGet + NumActive + nExit = started
          /\ ~closed => nExit = 0)
  /\ [][nExit' # nExit =>
          /\ closed
          /\ nExit' = nExit + 1
          /\ nCheck' = nCheck - 1
          /\ UNCHANGED <<nGet, pumps>>]_vars

C20_Witness ==
  /\ variant = "pool"
  /\ ~closed
  /\ started = MaxThreads
  /\ nGet = started
  /\ \E i \in DOMAIN pumps : pumps[i].pc = "raised"
====
